---- MODULE Spec2Model ----
(***************************************************************************)
(* Model of the /execute handler of the Python code execution sandbox      *)
(* (src/infra/sandbox/executor.py).  Every request handled by execute()    *)
(* is a process that walks through the statements of the handler; the      *)
(* shared state is the scratch root TMP_DIR on disk.                       *)
(***************************************************************************)
EXTENDS Integers, Sequences, FiniteSets, TLC

\* ------------------------------------------------------------------------
\* Program constants
\* ------------------------------------------------------------------------
TIMEOUT_DEFAULT == 30
TIMEOUT_MAX == 60

\* ------------------------------------------------------------------------
\* Bounds of the model
\* ------------------------------------------------------------------------
\* largest number of figures a submitted program leaves open
MaxFigs == 2

\* largest number of figures in the specification of the artifact order
MaxManyFigs == 11

\* the requests handled (concurrently) by the service
Req == {"A", "B"}

\* the directory names the random-name generator of mkdtemp can produce
Names == {"tmpa", "tmpb"}

\* exit statuses of a child: 0, an error exit, and death by signal 1
\* (subprocess reports a child killed by signal N as -N)
ExitCodes == {0, 1, -1}

\* the measured wall-clock durations of a run, in milliseconds
ElapsedChoices == {0, 7}

\* ------------------------------------------------------------------------
\* Requests
\* ------------------------------------------------------------------------
\* The 'timeout' member of the JSON body: absent, an integer, or a value
\* that is not a number (a string).
NoTimeout == [tag |-> "absent", val |-> 0]
StrTimeout == [tag |-> "str", val |-> 0]
IntTimeout(n) == [tag |-> "int", val |-> n]
TimeoutInts == {-5, 0, 45, TIMEOUT_MAX, TIMEOUT_MAX + 1}
TimeoutInputs == {NoTimeout, StrTimeout} \cup {IntTimeout(n) : n \in TimeoutInts}

\* The submitted program text, identified by what running it does: the
\* number of figures left open when the user code ends, the exit status,
\* and whether the bytes it prints are valid UTF-8.
Programs == [figs : 0..MaxFigs, rc : ExitCodes, utf8 : BOOLEAN]
NoProgram == [figs |-> 0, rc |-> 0, utf8 |-> TRUE]

\* what the child prints (captured by capture_output=True, text=True)
ChildStdout(p) == IF p.rc = 0 THEN "hello\n" ELSE ""
ChildStderr(p) == IF p.rc = 0 THEN "" ELSE "Traceback (most recent call last)"

\* The value returned by request.get_json():
\*   kind "none"  - no body (None)
\*   kind "dict"  - a JSON object; empty is TRUE for {}, hasCode tells whether
\*                  the key 'code' is present
\*   kind "list"  - a JSON array; hasCode tells whether the string 'code' is
\*                  one of its elements
NoBody == [kind |-> "none", empty |-> TRUE, hasCode |-> FALSE,
           code |-> NoProgram, timeout |-> NoTimeout]
DictBodies ==
    {[kind |-> "dict", empty |-> FALSE, hasCode |-> TRUE, code |-> p, timeout |-> t] :
        p \in Programs, t \in TimeoutInputs}
    \cup {[kind |-> "dict", empty |-> e, hasCode |-> FALSE, code |-> NoProgram,
           timeout |-> NoTimeout] : e \in BOOLEAN}
ListBodies ==
    {[kind |-> "list", empty |-> FALSE, hasCode |-> h, code |-> NoProgram,
      timeout |-> NoTimeout] : h \in BOOLEAN}
    \cup {[kind |-> "list", empty |-> TRUE, hasCode |-> FALSE, code |-> NoProgram,
           timeout |-> NoTimeout]}
Bodies == {NoBody} \cup DictBodies \cup ListBodies

\* a request that never arrives
NoRequest == [kind |-> "absent", empty |-> TRUE, hasCode |-> FALSE,
              code |-> NoProgram, timeout |-> NoTimeout]

\* the request is a JSON object with a 'code' member
CarriesCode(b) == b.kind = "dict" /\ b.hasCode

\* the bodies of the concurrent specification: objects with a program that
\* exits 0, plus one body of each kind that ends the handler early
ConcBodies ==
    {b \in DictBodies : b.hasCode /\ b.code.rc = 0 /\ b.code.utf8
                        /\ b.timeout \in {NoTimeout, IntTimeout(0)}}
    \cup {NoBody,
          [kind |-> "dict", empty |-> FALSE, hasCode |-> TRUE,
           code |-> NoProgram, timeout |-> StrTimeout]}

\* ------------------------------------------------------------------------
\* Pure helpers
\* ------------------------------------------------------------------------
Min(a, b) == IF a <= b THEN a ELSE b

\* str(n) of an integer, as Python's f-string formats it
DigitStr(d) == <<"0", "1", "2", "3", "4", "5", "6", "7", "8", "9">>[d + 1]
RECURSIVE NatStr(_)
NatStr(n) == IF n < 10 THEN DigitStr(n) ELSE NatStr(n \div 10) \o DigitStr(n % 10)
IntStr(n) == IF n < 0 THEN "-" \o NatStr(-n) ELSE NatStr(n)

\* file names are sequences of character codes, so that sorted() can
\* compare them as Python compares strings
DigitCodes(d) == <<48 + d>>
RECURSIVE NatCodes(_)
NatCodes(n) == IF n < 10 THEN DigitCodes(n) ELSE NatCodes(n \div 10) \o DigitCodes(n % 10)
\* f"figure_{i}.png"
FigName(i) == <<102, 105, 103, 117, 114, 101, 95>> \o NatCodes(i) \o <<46, 112, 110, 103>>

\* s < t in Python's string order
RECURSIVE LexLess(_, _)
LexLess(s, t) ==
    IF s = <<>> THEN t # <<>>
    ELSE IF t = <<>> THEN FALSE
    ELSE IF Head(s) # Head(t) THEN Head(s) < Head(t)
    ELSE LexLess(Tail(s), Tail(t))

\* a sort in descending order
RECURSIVE SortedDescending(_)
SortedDescending(S) ==
    IF S = {} THEN <<>>
    ELSE LET m == CHOOSE x \in S : \A y \in S \ {x} : LexLess(y, x)
         IN <<m>> \o SortedDescending(S \ {m})

\* sorted(S) for a set S of names
RECURSIVE Sorted(_)
Sorted(S) ==
    IF S = {} THEN <<>>
    ELSE LET m == CHOOSE x \in S : \A y \in S \ {x} : LexLess(x, y)
         IN <<m>> \o Sorted(S \ {m})

\* base64.b64encode(bytes).decode('utf-8'); the bytes of an image are
\* abstracted by the request whose child wrote them
B64(bytes) == <<"b64", bytes>>

\* ------------------------------------------------------------------------
\* Responses
\* ------------------------------------------------------------------------
NoResponse == [status |-> 0, body |-> [none |-> TRUE]]

\* jsonify({'error': 'Missing "code" field'}), 400
MissingCode == [status |-> 400, body |-> [error |-> "Missing \"code\" field"]]

\* a timeout handler that reports the seconds as milliseconds
TimeoutResultSeconds(t) ==
    [status |-> 200,
     body |-> [stdout |-> "",
               stderr |-> "Execution timed out after " \o IntStr(t) \o " seconds",
               returnCode |-> -1,
               files |-> <<>>,
               executionTimeMs |-> t]]

\* the body of the TimeoutExpired handler
TimeoutResult(t) ==
    [status |-> 200,
     body |-> [stdout |-> "",
               stderr |-> "Execution timed out after " \o IntStr(t) \o " seconds",
               returnCode |-> -1,
               files |-> <<>>,
               executionTimeMs |-> t * 1000]]

\* the body of the generic Exception handler
InternalError(msg) ==
    [status |-> 500,
     body |-> [stdout |-> "", stderr |-> msg, returnCode |-> -1,
               files |-> <<>>, executionTimeMs |-> 0]]

\* a return statement that treats a non-zero exit as a failure of the service
CompletedResultChecked(res, fls, ms) ==
    IF res.returncode # 0
    THEN InternalError(res.stderr)
    ELSE [status |-> 200,
          body |-> [stdout |-> res.stdout, stderr |-> res.stderr,
                    returnCode |-> res.returncode, files |-> fls,
                    executionTimeMs |-> ms]]

\* the return statement that follows the run and the collection
CompletedResult(res, fls, ms) ==
    [status |-> 200,
     body |-> [stdout |-> res.stdout, stderr |-> res.stderr,
               returnCode |-> res.returncode, files |-> fls,
               executionTimeMs |-> ms]]

\* a timeout computation without the clamp
EffectiveTimeoutUnclamped(t) ==
    IF t.tag = "absent" THEN TIMEOUT_DEFAULT ELSE t.val

\* timeout = min(data.get('timeout', TIMEOUT_DEFAULT), TIMEOUT_MAX)
EffectiveTimeout(t) ==
    Min(IF t.tag = "absent" THEN TIMEOUT_DEFAULT ELSE t.val, TIMEOUT_MAX)

\* ------------------------------------------------------------------------
\* The scratch root on disk
\* ------------------------------------------------------------------------
\* fs maps the name of each directory under TMP_DIR to its contents:
\*   owner  - the request whose mkdtemp created it (its identity on disk)
\*   script - the programs written to script.py, in order
\*   pngs   - the *.png files: name -> the request whose child wrote it
NoDir == "none"
NoPngs == [n \in {} |-> "A"]
EmptyDir(r) == [owner |-> r, script |-> <<>>, pngs |-> NoPngs]

\* os.mkdir(d): creates the directory, never touches an existing one
MakeDir(fsys, d, r) ==
    [x \in DOMAIN fsys \cup {d} |->
        IF x \in DOMAIN fsys THEN fsys[x] ELSE EmptyDir(r)]

\* a name generator that does not look at what exists
AnyNames(fsys) == Names

\* the names mkdtemp can return: it retries while os.mkdir reports that the
\* name exists
FreshNames(fsys) == Names \ DOMAIN fsys

\* a deletion that removes nothing
RmtreeKeeps(fsys, d) == fsys

\* shutil.rmtree(d) when every deletion succeeds
Rmtree(fsys, d) == [x \in DOMAIN fsys \ {d} |-> fsys[x]]

\* shutil.rmtree(d, ignore_errors=True) when the files go but the directory
\* itself cannot be removed
RmtreeContents(fsys, d) ==
    [x \in DOMAIN fsys |->
        IF x = d THEN [fsys[x] EXCEPT !.script = <<>>, !.pngs = NoPngs] ELSE fsys[x]]

\* a staging step that writes the program a second time
StageProgramTwice(fsys, d, p) ==
    [fsys EXCEPT ![d].script = Append(Append(@, p), p)]

\* open(code_file, 'w'); f.write(wrapped_code): one write of script.py
StageProgram(fsys, d, p) == [fsys EXCEPT ![d].script = Append(@, p)]

\* a png of directory d is removed from the disk
RemovePng(fsys, d, n) ==
    [fsys EXCEPT ![d].pngs = [m \in DOMAIN @ \ {n} |-> @[m]]]

\* a timeout path that leaves the child alone
KillChildNot(c) == c

\* process.kill(); process.wait() of subprocess.run when the timeout expires
KillChild(c) == [c EXCEPT !.state = IF @ = "running" THEN "killed" ELSE @]

\* the file figure_<i>.png written into directory d by the child of w
SaveFig(fsys, d, i, w) ==
    [fsys EXCEPT ![d].pngs =
        [n \in DOMAIN @ \cup {FigName(i)} |-> IF n = FigName(i) THEN w ELSE @[n]]]

\* a finally block that reports a failed deletion instead of the result
FinallyResultMasked(pending, outcome) ==
    IF outcome = "ok" THEN pending ELSE InternalError("rmtree failed")

\* the finally block neither returns nor raises: the pending return value
\* is the response, whatever the deletion did
FinallyResult(pending, outcome) == pending

\* ------------------------------------------------------------------------
\* State
\* ------------------------------------------------------------------------
VARIABLES
    req,                \* the JSON body of each request (data)
    pc,                 \* where each request is in execute()
    timeout,            \* local: the effective timeout
    exec_dir,           \* local: the directory returned by mkdtemp
    fs,                 \* the directories under TMP_DIR
    child,              \* the child process of each request
    result,             \* local: the CompletedProcess of subprocess.run
    execution_time_ms,  \* local
    img_paths,          \* the paths of the scan still to be read
    files,              \* local: the artifacts collected so far
    ret,                \* the return value pending while finally runs
    resp,               \* the response execute() returned
    error,              \* the exception raised in the request, if any
    rmtree              \* what shutil.rmtree did: "none", "ok", "failed"

vars == <<req, pc, timeout, exec_dir, fs, child, result, execution_time_ms,
          img_paths, files, ret, resp, error, rmtree>>

\* spawns counts the Popen calls made for the request
NoChild == [state |-> "none", saved |-> 0, spawns |-> 0]
NoResult == [stdout |-> "", stderr |-> "", returncode |-> 0]
NoError == ""

InitLocals ==
    /\ pc = [r \in Req |-> "idle"]
    /\ timeout = [r \in Req |-> 0]
    /\ exec_dir = [r \in Req |-> NoDir]
    /\ fs = [d \in {} |-> EmptyDir("A")]
    /\ child = [r \in Req |-> NoChild]
    /\ result = [r \in Req |-> NoResult]
    /\ execution_time_ms = [r \in Req |-> 0]
    /\ img_paths = [r \in Req |-> <<>>]
    /\ files = [r \in Req |-> <<>>]
    /\ ret = [r \in Req |-> NoResponse]
    /\ resp = [r \in Req |-> NoResponse]
    /\ error = [r \in Req |-> NoError]
    /\ rmtree = [r \in Req |-> "none"]

\* one request, with every kind of body
Init ==
    /\ req \in {q \in [Req -> Bodies \cup {NoRequest}] :
                    q["A"] \in Bodies /\ q["B"] = NoRequest}
    /\ InitLocals

\* one request whose program exits 0 with up to MaxManyFigs figures open
InitFigs ==
    /\ \E k \in 0..MaxManyFigs :
          req = [r \in Req |->
                    IF r = "A"
                    THEN [kind |-> "dict", empty |-> FALSE, hasCode |-> TRUE,
                          code |-> [figs |-> k, rc |-> 0, utf8 |-> TRUE],
                          timeout |-> NoTimeout]
                    ELSE NoRequest]
    /\ InitLocals

\* two concurrent requests
InitConc ==
    /\ req \in [Req -> ConcBodies]
    /\ InitLocals

\* ------------------------------------------------------------------------
\* Steps of execute()
\* ------------------------------------------------------------------------
\* an exception that no handler of execute() catches leaves the function
Escapes(r, msg) ==
    /\ error' = [error EXCEPT ![r] = msg]
    /\ pc' = [pc EXCEPT ![r] = "raised"]

\* except Exception as e: the internal-error result; finally runs next
Fails(r, msg) ==
    /\ error' = [error EXCEPT ![r] = msg]
    /\ ret' = [ret EXCEPT ![r] = InternalError(msg)]
    /\ pc' = [pc EXCEPT ![r] = "finally"]

\* if not data or 'code' not in data: return 400
Validate(r) ==
    /\ pc[r] = "idle"
    /\ req[r] # NoRequest
    /\ IF req[r].kind = "none" \/ req[r].empty \/ ~req[r].hasCode
       THEN /\ resp' = [resp EXCEPT ![r] = MissingCode]
            /\ pc' = [pc EXCEPT ![r] = "done"]
       ELSE /\ pc' = [pc EXCEPT ![r] = "clamp"]
            /\ UNCHANGED resp
    /\ UNCHANGED <<req, timeout, exec_dir, fs, child, result, execution_time_ms,
                   img_paths, files, ret, error, rmtree>>

\* code = data['code']; timeout = min(data.get('timeout', ...), TIMEOUT_MAX)
\* Both statements stand before the try block.
Clamp(r) ==
    /\ pc[r] = "clamp"
    /\ IF req[r].kind # "dict"
       THEN /\ Escapes(r, "TypeError: list indices must be integers or slices, not str")
            /\ UNCHANGED timeout
       ELSE IF req[r].timeout.tag = "str"
       THEN /\ Escapes(r, "TypeError: '<' not supported between instances of 'int' and 'str'")
            /\ UNCHANGED timeout
       ELSE /\ timeout' = [timeout EXCEPT ![r] = EffectiveTimeout(req[r].timeout)]
            /\ pc' = [pc EXCEPT ![r] = "mkdtemp"]
            /\ UNCHANGED error
    /\ UNCHANGED <<req, exec_dir, fs, child, result, execution_time_ms,
                   img_paths, files, ret, resp, rmtree>>

\* the error mkdtemp raises when TMP_DIR is missing or unwritable
MkdtempError == "PermissionError: [Errno 13] Permission denied: '/tmp/sandbox'"

\* exec_dir = tempfile.mkdtemp(dir=TMP_DIR), before the try block
Mkdtemp(r) ==
    /\ pc[r] = "mkdtemp"
    /\ \/ \E d \in FreshNames(fs) :
            /\ fs' = MakeDir(fs, d, r)
            /\ exec_dir' = [exec_dir EXCEPT ![r] = d]
            /\ pc' = [pc EXCEPT ![r] = "write"]
            /\ UNCHANGED error
       \/ /\ Escapes(r, MkdtempError)
          /\ UNCHANGED <<fs, exec_dir>>
    /\ UNCHANGED <<req, timeout, child, result, execution_time_ms,
                   img_paths, files, ret, resp, rmtree>>

\* with open(code_file, 'w') as f: f.write(wrapped_code)
WriteScript(r) ==
    /\ pc[r] = "write"
    /\ \/ /\ exec_dir[r] \in DOMAIN fs
          /\ fs' = StageProgram(fs, exec_dir[r], req[r].code)
          /\ pc' = [pc EXCEPT ![r] = "spawn"]
          /\ UNCHANGED <<error, ret>>
       \/ /\ Fails(r, "OSError: [Errno 28] No space left on device")
          /\ UNCHANGED fs
    /\ UNCHANGED <<req, timeout, exec_dir, child, result, execution_time_ms,
                   img_paths, files, resp, rmtree>>

\* subprocess.run: Popen starts the child
Spawn(r) ==
    /\ pc[r] = "spawn"
    /\ \/ /\ child' = [child EXCEPT ![r] = [state |-> "running", saved |-> 0,
                                               spawns |-> @.spawns + 1]]
          /\ pc' = [pc EXCEPT ![r] = "wait"]
          /\ UNCHANGED <<error, ret>>
       \/ /\ Fails(r, "OSError: [Errno 12] Cannot allocate memory")
          /\ UNCHANGED child
    /\ UNCHANGED <<req, timeout, exec_dir, fs, result, execution_time_ms,
                   img_paths, files, resp, rmtree>>

\* the child: the postamble of the wrapped code saves the next open figure
ChildSaveFig(r) ==
    /\ child[r].state = "running"
    /\ child[r].saved < req[r].code.figs
    /\ exec_dir[r] \in DOMAIN fs
    /\ fs' = SaveFig(fs, exec_dir[r], child[r].saved, r)
    /\ child' = [child EXCEPT ![r].saved = @ + 1]
    /\ UNCHANGED <<req, pc, timeout, exec_dir, result, execution_time_ms,
                   img_paths, files, ret, resp, error, rmtree>>

\* the child terminates by itself: with status 0 once every figure is
\* saved, with another status at any point
ChildExit(r) ==
    /\ child[r].state = "running"
    /\ req[r].code.rc = 0 => child[r].saved = req[r].code.figs
    /\ child' = [child EXCEPT ![r].state = "exited"]
    /\ UNCHANGED <<req, pc, timeout, exec_dir, fs, result, execution_time_ms,
                   img_paths, files, ret, resp, error, rmtree>>

\* the error of text=True when the captured bytes are not valid UTF-8
DecodeError == "UnicodeDecodeError: 'utf-8' codec can't decode byte 0xff"

\* subprocess.run returns the CompletedProcess, or raises when the captured
\* output cannot be decoded;
\* execution_time_ms = int((time.time() - start_time) * 1000)
\* communicate() raises TimeoutExpired at once when timeout <= 0.
RunReturns(r) ==
    /\ pc[r] = "wait"
    /\ child[r].state = "exited"
    /\ timeout[r] > 0
    /\ IF req[r].code.utf8
       THEN /\ result' = [result EXCEPT ![r] =
                            [stdout |-> ChildStdout(req[r].code),
                             stderr |-> ChildStderr(req[r].code),
                             returncode |-> req[r].code.rc]]
            /\ \E ms \in ElapsedChoices :
                  execution_time_ms' = [execution_time_ms EXCEPT ![r] = ms]
            /\ pc' = [pc EXCEPT ![r] = "scan"]
            /\ UNCHANGED <<error, ret>>
       ELSE /\ Fails(r, DecodeError)
            /\ UNCHANGED <<result, execution_time_ms>>
    /\ UNCHANGED <<req, timeout, exec_dir, fs, child, img_paths, files,
                   resp, rmtree>>

\* a timeout path that starts the program again
TimeoutExpiredRetry(r) ==
    /\ pc[r] = "wait"
    /\ child[r].state = "running" \/ timeout[r] <= 0
    /\ child' = [child EXCEPT ![r] = KillChild(@)]
    /\ pc' = [pc EXCEPT ![r] = "spawn"]
    /\ UNCHANGED <<req, timeout, exec_dir, fs, result, execution_time_ms,
                   img_paths, files, ret, resp, error, rmtree>>

\* subprocess.run raises TimeoutExpired after killing the child and waiting
\* for it; the handler builds the timeout result
TimeoutExpired(r) ==
    /\ pc[r] = "wait"
    /\ child[r].state = "running" \/ timeout[r] <= 0
    /\ child' = [child EXCEPT ![r] = KillChild(@)]
    /\ ret' = [ret EXCEPT ![r] = TimeoutResult(timeout[r])]
    /\ pc' = [pc EXCEPT ![r] = "finally"]
    /\ UNCHANGED <<req, timeout, exec_dir, fs, result, execution_time_ms,
                   img_paths, files, resp, error, rmtree>>

\* sorted(glob.glob(os.path.join(exec_dir, '*.png')))
Scan(r) ==
    /\ pc[r] = "scan"
    /\ img_paths' = [img_paths EXCEPT ![r] =
                        IF exec_dir[r] \in DOMAIN fs
                        THEN Sorted(DOMAIN fs[exec_dir[r]].pngs) ELSE <<>>]
    /\ pc' = [pc EXCEPT ![r] = "read"]
    /\ UNCHANGED <<req, timeout, exec_dir, fs, child, result, execution_time_ms,
                   files, ret, resp, error, rmtree>>

\* open() of a path of the scan whose file has vanished since the scan
VanishedError == "FileNotFoundError: [Errno 2] No such file or directory"

\* open() of a file that cannot be read
UnreadableError == "PermissionError: [Errno 13] Permission denied"

\* the errors open() or read() of an image can raise
ReadErrors == {VanishedError, UnreadableError}

\* one turn of the collection loop: open, read, encode, append; the file
\* may have vanished since the scan (open raises FileNotFoundError) or be
\* unreadable
ReadNext(r) ==
    /\ pc[r] = "read"
    /\ img_paths[r] # <<>>
    /\ \/ /\ exec_dir[r] \in DOMAIN fs
          /\ Head(img_paths[r]) \in DOMAIN fs[exec_dir[r]].pngs
          /\ files' = [files EXCEPT ![r] =
                Append(@, [name |-> Head(img_paths[r]),
                           base64 |-> B64(fs[exec_dir[r]].pngs[Head(img_paths[r])]),
                           mimeType |-> "image/png"])]
          /\ img_paths' = [img_paths EXCEPT ![r] = Tail(@)]
          /\ UNCHANGED <<pc, error, ret, fs>>
       \/ /\ exec_dir[r] \in DOMAIN fs
          /\ Head(img_paths[r]) \in DOMAIN fs[exec_dir[r]].pngs
          /\ fs' = RemovePng(fs, exec_dir[r], Head(img_paths[r]))
          /\ Fails(r, VanishedError)
          /\ UNCHANGED <<files, img_paths>>
       \/ /\ Fails(r, UnreadableError)
          /\ UNCHANGED <<files, img_paths, fs>>
    /\ UNCHANGED <<req, timeout, exec_dir, child, result, execution_time_ms,
                   resp, rmtree>>

\* return jsonify({... 'returnCode': result.returncode ...})
ReturnCompleted(r) ==
    /\ pc[r] = "read"
    /\ img_paths[r] = <<>>
    /\ ret' = [ret EXCEPT ![r] =
                  CompletedResult(result[r], files[r], execution_time_ms[r])]
    /\ pc' = [pc EXCEPT ![r] = "finally"]
    /\ UNCHANGED <<req, timeout, exec_dir, fs, child, result, execution_time_ms,
                   img_paths, files, resp, error, rmtree>>

\* what shutil.rmtree(exec_dir, ignore_errors=True) can do
RmtreeOutcomes == {"ok", "contents", "nothing"}

\* finally: shutil.rmtree(exec_dir, ignore_errors=True) inside try/except;
\* then the pending return value is returned
Cleanup(r) ==
    /\ pc[r] = "finally"
    /\ \E o \in RmtreeOutcomes :
          /\ fs' = IF exec_dir[r] \notin DOMAIN fs THEN fs
                   ELSE IF o = "ok" THEN Rmtree(fs, exec_dir[r])
                   ELSE IF o = "contents" THEN RmtreeContents(fs, exec_dir[r])
                   ELSE fs
          /\ rmtree' = [rmtree EXCEPT ![r] = IF o = "ok" THEN "ok" ELSE "failed"]
          /\ resp' = [resp EXCEPT ![r] = FinallyResult(ret[r], o)]
    /\ pc' = [pc EXCEPT ![r] = "done"]
    /\ UNCHANGED <<req, timeout, exec_dir, child, result, execution_time_ms,
                   img_paths, files, ret, error>>

Next ==
    \E r \in Req :
        \/ Validate(r)
        \/ Clamp(r)
        \/ Mkdtemp(r)
        \/ WriteScript(r)
        \/ Spawn(r)
        \/ ChildSaveFig(r)
        \/ ChildExit(r)
        \/ RunReturns(r)
        \/ TimeoutExpired(r)
        \/ Scan(r)
        \/ ReadNext(r)
        \/ ReturnCompleted(r)
        \/ Cleanup(r)

Spec == Init /\ [][Next]_vars

SpecConc == InitConc /\ [][Next]_vars

SpecFigs == InitFigs /\ [][Next]_vars

\* the steps taken by the worker that runs execute() for r; the steps of the
\* child are not among them
HandlerStep(r) ==
    \/ Validate(r)
    \/ Clamp(r)
    \/ Mkdtemp(r)
    \/ WriteScript(r)
    \/ Spawn(r)
    \/ RunReturns(r)
    \/ TimeoutExpired(r)
    \/ Scan(r)
    \/ ReadNext(r)
    \/ ReturnCompleted(r)
    \/ Cleanup(r)

\* The worker of a request keeps running, and subprocess.run returns when
\* the child has exited or the timeout has expired; the child itself may
\* run forever.
SpecFair == Init /\ [][Next]_vars /\ \A r \in Req : WF_vars(HandlerStep(r))

\* ------------------------------------------------------------------------
\* Shapes of the state
\* ------------------------------------------------------------------------
TypeOK ==
    /\ pc \in [Req -> {"idle", "clamp", "mkdtemp", "write", "spawn", "wait",
                       "scan", "read", "finally", "done", "raised"}]
    /\ exec_dir \in [Req -> Names \cup {NoDir}]
    /\ DOMAIN fs \subseteq Names
    /\ rmtree \in [Req -> {"none", "ok", "failed"}]

\* ------------------------------------------------------------------------
\* Vocabulary of the properties
\* ------------------------------------------------------------------------
\* execute() is over for r: it returned a response or an exception left it
Over(r) == pc[r] \in {"done", "raised"}

\* a directory created by r's mkdtemp is on disk
WorkspaceExists(r) == \E d \in DOMAIN fs : fs[d].owner = r

\* r's child was started
Spawned(r) == child[r].state # "none"

\* r's child did not terminate within the effective timeout
ChildTimedOut(r) == Spawned(r) /\ (child[r].state = "killed" \/ timeout[r] <= 0)

\* r's child terminated by itself within the timeout
ChildExitedInTime(r) == child[r].state = "exited" /\ timeout[r] > 0

\* the value the request asks for, or the default
Requested(t) == IF t.tag = "absent" THEN TIMEOUT_DEFAULT ELSE t.val

\* decimal text of the effective timeouts, written out
DecimalText(n) ==
    CASE n = -5 -> "-5" [] n = 0 -> "0" [] n = 30 -> "30" [] n = 45 -> "45"
      [] n = 60 -> "60" [] OTHER -> "?"

\* ------------------------------------------------------------------------
\* C1
\* ------------------------------------------------------------------------
\* C1 as stated: for every request that carries 'code', once the response
\* is returned the workspace created for the request is no longer on disk.
C1_WorkspaceGone ==
    \A r \in Req :
        (CarriesCode(req[r]) /\ pc[r] = "done") => ~WorkspaceExists(r)

\* C1 amended: for every request that carries 'code' and every outcome,
\* once execute() is over either no workspace was created, or its deletion
\* was attempted; the workspace is off the disk unless that deletion failed.
C1_WorkspaceReleased ==
    \A r \in Req :
        (CarriesCode(req[r]) /\ Over(r)) =>
            /\ exec_dir[r] = NoDir => ~WorkspaceExists(r)
            /\ exec_dir[r] # NoDir => rmtree[r] # "none"
            /\ rmtree[r] # "failed" => ~WorkspaceExists(r)

C1_Witness ==
    \E r \in Req :
        /\ pc[r] = "done" /\ exec_dir[r] # NoDir /\ rmtree[r] = "ok"
        /\ resp[r].status = 200 /\ child[r].state = "exited"
        /\ ~WorkspaceExists(r)

\* ------------------------------------------------------------------------
\* C2
\* ------------------------------------------------------------------------
\* C2: when workspace creation fails, the request ends with the
\* internal-error result (500, empty stdout, the message as stderr,
\* returnCode -1, no files, executionTimeMs 0), nothing was staged or run,
\* and no exception leaves execute().
C2_CreationFailureReported ==
    \A r \in Req :
        (Over(r) /\ error[r] = MkdtempError) =>
            /\ pc[r] = "done"
            /\ resp[r] = [status |-> 500,
                          body |-> [stdout |-> "", stderr |-> MkdtempError,
                                    returnCode |-> -1, files |-> <<>>,
                                    executionTimeMs |-> 0]]
            /\ ~Spawned(r)

\* ------------------------------------------------------------------------
\* C3
\* ------------------------------------------------------------------------
\* C3: for every request whose child was started, the timeout handed to
\* the process runner is in (0, TIMEOUT_MAX].
C3_TimeoutInRange ==
    \A r \in Req :
        Spawned(r) => (0 < timeout[r] /\ timeout[r] <= TIMEOUT_MAX)

\* ------------------------------------------------------------------------
\* C4
\* ------------------------------------------------------------------------
\* C4: once the timeout is computed it is the smaller of the requested
\* value (the default when absent) and TIMEOUT_MAX; a requested value above
\* TIMEOUT_MAX gives TIMEOUT_MAX and the computation raises no error and
\* answers no client error.
C4_TimeoutClamped ==
    \A r \in Req :
        (CarriesCode(req[r]) /\ req[r].timeout.tag # "str"
         /\ pc[r] \notin {"idle", "clamp"}) =>
            /\ timeout[r] <= Requested(req[r].timeout)
            /\ timeout[r] <= TIMEOUT_MAX
            /\ timeout[r] \in {Requested(req[r].timeout), TIMEOUT_MAX}
            /\ Requested(req[r].timeout) > TIMEOUT_MAX => timeout[r] = TIMEOUT_MAX
            /\ error[r] \in {NoError, MkdtempError, DecodeError} \cup ReadErrors
                   \cup {"OSError: [Errno 28] No space left on device",
                         "OSError: [Errno 12] Cannot allocate memory"}
            /\ resp[r].status # 400

C4_Witness ==
    \E r \in Req :
        /\ req[r].timeout = IntTimeout(TIMEOUT_MAX + 1)
        /\ timeout[r] = TIMEOUT_MAX
        /\ pc[r] = "done" /\ resp[r].status = 200

\* ------------------------------------------------------------------------
\* C5
\* ------------------------------------------------------------------------
\* C5: when the child has not terminated within the effective timeout, the
\* response is 200 with empty stdout, a stderr naming the effective
\* timeout, returnCode -1 and executionTimeMs = timeout * 1000.
C5_TimeoutReported ==
    \A r \in Req :
        (pc[r] = "done" /\ ChildTimedOut(r)) =>
            /\ resp[r].status = 200
            /\ resp[r].body.stdout = ""
            /\ resp[r].body.stderr =
                 "Execution timed out after " \o DecimalText(timeout[r]) \o " seconds"
            /\ resp[r].body.returnCode = -1
            /\ resp[r].body.executionTimeMs = timeout[r] * 1000

C5_Witness ==
    \E r \in Req :
        /\ pc[r] = "done" /\ child[r].state = "killed"
        /\ timeout[r] = 45
        /\ resp[r].body.executionTimeMs = 45000
        /\ resp[r].body.stderr = "Execution timed out after 45 seconds"

\* ------------------------------------------------------------------------
\* C6
\* ------------------------------------------------------------------------
\* the response passes the child's output and exit status through
PassedThrough(r) ==
    /\ resp[r].status = 200
    /\ resp[r].body.stdout = ChildStdout(req[r].code)
    /\ resp[r].body.stderr = ChildStderr(req[r].code)
    /\ resp[r].body.returnCode = req[r].code.rc

\* C6 as stated: whenever the child terminates by itself within the
\* timeout, with any exit code, the response is 200 and carries exactly the
\* child's stdout, stderr and exit code.
C6_ExitIsCompleted ==
    \A r \in Req :
        (pc[r] = "done" /\ ChildExitedInTime(r)) => PassedThrough(r)

\* C6 amended: whenever the child terminates by itself within the timeout,
\* with any exit code, the response is 200 with exactly the child's stdout,
\* stderr and exit code, unless decoding the captured output or reading a
\* collected image raised; then it is the internal-error result carrying
\* that exception's message.
C6_ExitPassedThrough ==
    \A r \in Req :
        (pc[r] = "done" /\ ChildExitedInTime(r)) =>
            IF error[r] = NoError
            THEN PassedThrough(r)
            ELSE /\ error[r] \in ReadErrors \cup {DecodeError}
                 /\ resp[r].status = 500
                 /\ resp[r].body.stderr = error[r]
                 /\ resp[r].body.returnCode = -1

C6_Witness ==
    \E r \in Req :
        /\ pc[r] = "done" /\ ChildExitedInTime(r)
        /\ req[r].code.rc = 1 /\ req[r].code.utf8
        /\ resp[r].status = 200
        /\ resp[r].body.returnCode = 1
        /\ resp[r].body.stderr = "Traceback (most recent call last)"

\* ------------------------------------------------------------------------
\* C7
\* ------------------------------------------------------------------------
\* C7: a request whose body is missing or has no 'code' field gets the
\* 400 response, and no workspace, staged program or child exists for it.
C7_MissingCodeRejected ==
    \A r \in Req :
        (Over(r) /\ req[r] # NoRequest /\ ~CarriesCode(req[r])) =>
            /\ resp[r] = [status |-> 400,
                          body |-> [error |-> "Missing \"code\" field"]]
            /\ exec_dir[r] = NoDir
            /\ ~WorkspaceExists(r)
            /\ ~Spawned(r)

\* ------------------------------------------------------------------------
\* C8
\* ------------------------------------------------------------------------
\* C8: an error raised at any step after validation never leaves
\* execute(); the response is 500 with empty stdout, the message as stderr,
\* returnCode -1 and executionTimeMs 0.
C8_ErrorsCaught ==
    \A r \in Req :
        error[r] # NoError =>
            /\ pc[r] # "raised"
            /\ pc[r] = "done" =>
                  /\ resp[r].status = 500
                  /\ resp[r].body.stdout = ""
                  /\ resp[r].body.stderr = error[r]
                  /\ resp[r].body.returnCode = -1
                  /\ resp[r].body.executionTimeMs = 0

\* ------------------------------------------------------------------------
\* C9
\* ------------------------------------------------------------------------
\* every entry of a files list was written by r's own child
OwnFiles(r, fls) == \A i \in 1..Len(fls) : fls[i].base64 = <<"b64", r>>

\* C9: under every interleaving of two requests, the files a request
\* collects and returns were all written by its own child.
C9_NoForeignArtifacts ==
    \A r \in Req :
        /\ OwnFiles(r, files[r])
        /\ resp[r].status = 200 => OwnFiles(r, resp[r].body.files)

C9_Witness ==
    /\ req["A"] = req["B"]
    /\ pc["A"] = "read" /\ pc["B"] = "done"
    /\ exec_dir["A"] # exec_dir["B"]
    /\ Len(files["A"]) >= 1
    /\ resp["B"].status = 200 /\ Len(resp["B"].body.files) >= 1
    /\ WorkspaceExists("A") /\ WorkspaceExists("B")

\* ------------------------------------------------------------------------
\* C10
\* ------------------------------------------------------------------------
\* the result of the outcome that preceded the cleanup
Outcome(r) ==
    IF error[r] # NoError THEN InternalError(error[r])
    ELSE IF ChildTimedOut(r) THEN TimeoutResult(timeout[r])
    ELSE CompletedResult(result[r], files[r], execution_time_ms[r])

\* C10: the deletion of the workspace never raises and never changes the
\* response: after the cleanup, whether the deletion succeeded or failed,
\* the response is the result of the outcome that preceded it.
C10_CleanupKeepsResponse ==
    \A r \in Req :
        /\ rmtree[r] # "none" => (pc[r] = "done" /\ resp[r] = ret[r]
                                  /\ resp[r] = Outcome(r))
        /\ pc[r] = "raised" => rmtree[r] = "none"

C10_Witness ==
    \E r \in Req :
        /\ pc[r] = "done" /\ rmtree[r] = "failed" /\ WorkspaceExists(r)
        /\ resp[r].status = 200 /\ ChildExitedInTime(r)
        /\ resp[r].body.returnCode = req[r].code.rc

\* ------------------------------------------------------------------------
\* C11
\* ------------------------------------------------------------------------
\* C11: when an image found by the scan has vanished before it is read, the
\* file is left out of 'files' and the request still completes: status 200
\* with the child's stdout, stderr and exit code and the files that remain.
C11_VanishedOmitted ==
    \A r \in Req :
        (pc[r] = "done" /\ error[r] = VanishedError) =>
            /\ PassedThrough(r)
            /\ \A i \in 1..Len(resp[r].body.files) :
                  /\ exec_dir[r] \in DOMAIN fs =>
                        resp[r].body.files[i].name \in DOMAIN fs[exec_dir[r]].pngs
                  /\ resp[r].body.files[i].mimeType = "image/png"

\* ------------------------------------------------------------------------
\* C12
\* ------------------------------------------------------------------------
\* C12: in every response, returnCode = -1 only when the outcome was
\* TimedOut or Failed; a Completed outcome never reports -1.
C12_SentinelReserved ==
    \A r \in Req :
        (pc[r] = "done" /\ resp[r].status \in {200, 500}
         /\ resp[r].body.returnCode = -1) =>
            (ChildTimedOut(r) \/ error[r] # NoError)

\* ------------------------------------------------------------------------
\* C13
\* ------------------------------------------------------------------------
\* C13: in every result, for every outcome and every integer timeout of
\* the request, executionTimeMs >= 0.
C13_ElapsedNonNegative ==
    \A r \in Req :
        (pc[r] = "done" /\ resp[r].status \in {200, 500}) =>
            resp[r].body.executionTimeMs >= 0

\* ------------------------------------------------------------------------
\* C14
\* ------------------------------------------------------------------------
\* the names of a files list, in order
NamesOf(fls) == [i \in 1..Len(fls) |-> fls[i].name]

\* figure_0.png .. figure_(k-1).png in the order the figures were created
CreationOrder(k) == [i \in 1..k |-> FigName(i - 1)]

\* r completed with a program that exited 0 after saving its open figures
CompletedClean(r) ==
    /\ pc[r] = "done" /\ ChildExitedInTime(r) /\ error[r] = NoError
    /\ req[r].code.rc = 0 /\ resp[r].status = 200

\* C14 as stated: a program that leaves k figures open gives exactly k
\* entries figure_0.png .. figure_(k-1).png of type image/png, in the
\* creation order of the figures, for any k.
C14_FilesInCreationOrder ==
    \A r \in Req :
        CompletedClean(r) =>
            /\ NamesOf(resp[r].body.files) = CreationOrder(req[r].code.figs)
            /\ \A i \in 1..Len(resp[r].body.files) :
                  resp[r].body.files[i].mimeType = "image/png"

\* C14 amended: a program that leaves k figures open gives exactly k
\* entries, named figure_0.png .. figure_(k-1).png, of type image/png, in
\* ascending order of the file names as strings; that order is the creation
\* order when k <= 10.
C14_FilesInNameOrder ==
    \A r \in Req :
        CompletedClean(r) =>
            LET fls == resp[r].body.files
                k == req[r].code.figs
            IN /\ Len(fls) = k
               /\ {fls[i].name : i \in 1..Len(fls)} = {FigName(j) : j \in 0..(k - 1)}
               /\ \A i \in 1..Len(fls) : fls[i].mimeType = "image/png"
               /\ \A i, j \in 1..Len(fls) : i < j => LexLess(fls[i].name, fls[j].name)
               /\ k <= 10 => NamesOf(fls) = CreationOrder(k)

C14_Witness ==
    \E r \in Req :
        /\ CompletedClean(r)
        /\ req[r].code.figs = 11
        /\ Len(resp[r].body.files) = 11
        /\ resp[r].body.files[2].name = FigName(1)
        /\ resp[r].body.files[3].name = FigName(10)
        /\ resp[r].body.files[4].name = FigName(2)

\* ------------------------------------------------------------------------
\* C15
\* ------------------------------------------------------------------------
\* the directories on disk that r's mkdtemp created
WorkspacesOf(r) == {d \in DOMAIN fs : fs[d].owner = r}

\* r is between the staging of its program and the end of the collection
Staged(r) == pc[r] \in {"spawn", "wait", "scan", "read"}

C16_LifecycleOrder ==
    \A r \in Req :
        CarriesCode(req[r]) =>
            /\ pc[r] \in {"write", "spawn", "wait", "scan", "read"} =>
                  (WorkspaceExists(r) /\ rmtree[r] = "none")
            /\ child[r].state = "running" =>
                  /\ pc[r] = "wait"
                  /\ exec_dir[r] \in DOMAIN fs
                  /\ fs[exec_dir[r]].script = <<req[r].code>>
            /\ pc[r] \in {"scan", "read"} => child[r].state = "exited"
            /\ pc[r] = "finally" => ret[r].status \in {200, 500}
            /\ Over(r) => (pc[r] = "done" /\ rmtree[r] # "none")

\* ------------------------------------------------------------------------
\* C17
\* ------------------------------------------------------------------------
\* C17: every request that passed validation eventually reaches CleanedUp
\* and returns its response, whatever the child does.
C17_EventuallyCleanedUp ==
    \A r \in Req :
        (CarriesCode(req[r]) /\ pc[r] = "clamp")
            ~> (pc[r] = "done" /\ rmtree[r] # "none" /\ resp[r] # NoResponse)

\* ------------------------------------------------------------------------
\* C18
\* ------------------------------------------------------------------------
\* C18: the child is terminated before the TimedOut response is returned:
\* from the moment an outcome is pending, and after the response, the child
\* of the request is not running.
C18_ChildDeadAtResponse ==
    \A r \in Req :
        /\ pc[r] \in {"finally", "done", "raised"} => child[r].state # "running"
        /\ (pc[r] \in {"finally", "done"} /\ ChildTimedOut(r) /\ timeout[r] > 0) =>
              child[r].state = "killed"

C18_Witness ==
    \E r \in Req :
        /\ pc[r] = "done" /\ child[r].state = "killed" /\ child[r].saved >= 1
        /\ timeout[r] > 0
        /\ resp[r].status = 200 /\ resp[r].body.returnCode = -1

\* ------------------------------------------------------------------------
\* C19
\* ------------------------------------------------------------------------
\* r is between the allocation and the release of its workspace
Live(r) == pc[r] \in {"write", "spawn", "wait", "scan", "read", "finally"}

\* C19: under every interleaving, two requests that are both between
\* allocation and release hold distinct directories, and the directory of
\* such a request is on disk and its own: no other request released it.
C19_DistinctWorkspaces ==
    /\ \A a, b \in Req :
          (a # b /\ Live(a) /\ Live(b)) => exec_dir[a] # exec_dir[b]
    /\ \A r \in Req :
          Live(r) => (exec_dir[r] \in DOMAIN fs /\ fs[exec_dir[r]].owner = r)

C19_Witness ==
    /\ pc["A"] = "wait" /\ pc["B"] = "wait"
    /\ child["A"].state = "running" /\ child["B"].state = "running"
    /\ exec_dir["A"] # exec_dir["B"]
    /\ exec_dir["A"] \in DOMAIN fs /\ exec_dir["B"] \in DOMAIN fs

\* ------------------------------------------------------------------------
\* C20
\* ------------------------------------------------------------------------
\* C20: the child of a request is spawned at most once, and the response
\* reports the outcome of that one run: the timeout result after a timeout,
\* the child's own exit status after a crash or a non-zero exit.
C20_SpawnedOnce ==
    \A r \in Req :
        /\ child[r].spawns <= 1
        /\ Spawned(r) <=> child[r].spawns = 1
        /\ (pc[r] = "done" /\ Spawned(r)) =>
              IF ChildTimedOut(r)
              THEN resp[r].status = 200 /\ resp[r].body.returnCode = -1
                   /\ resp[r].body.files = <<>>
              ELSE IF error[r] = NoError
              THEN resp[r].status = 200 /\ resp[r].body.returnCode = req[r].code.rc
              ELSE resp[r].status = 500

C20_Witness ==
    \E r \in Req :
        /\ pc[r] = "done" /\ child[r].spawns = 1 /\ child[r].state = "exited"
        /\ req[r].code.rc = 1 /\ timeout[r] > 0 /\ error[r] = NoError
        /\ resp[r].status = 200 /\ resp[r].body.returnCode = 1
====
